---- MODULE Spec2Model ----
(***************************************************************************)
(* A model of brahmali.py: the batch conversion of the essay and glossary  *)
(* pages of one publication into Markdown files.                           *)
(*                                                                         *)
(* Strings are sequences of characters; a character is a one-element       *)
(* string, and the characters outside ASCII carry their Unicode names:     *)
(*   "NBSP" U+00A0, "ENDASH" U+2013, "EMDASH" U+2014, "LDQUO" U+201C,      *)
(*   "RDQUO" U+201D, "DQUOTE" U+0022, "TAB" U+0009, "uu" U+016B.           *)
(***************************************************************************)
EXTENDS Integers, Sequences, FiniteSets, TLC

VARIABLES
  title,                      \* sanitize_file_name: the argument
  fname,                      \* sanitize_file_name: the result ("unset" before the call)
  vinaya_essays,              \* get_vinaya_essays(): the fetched mapping, in its order
  pc,                         \* where main (or the callee it is in) stands
  idx,                        \* pages of vinaya_essays.items() the for loop is done with
  visited,                    \* the paths the for loop has reached, in order
  folders,                    \* the output folders that exist
  files,                      \* the output files: path -> text
  writes,                     \* every write_text of the run, in order
  stdout,                     \* the lines printed
  exc,                        \* the exception in flight or raised out of main
  glossary_json,              \* glossary.json: "absent" or the dumped mapping
  linked,                     \* rewrite_suttacentral_links_in_folder has run
  cur_elem,                   \* ImportEssay.generate_files: position in the page, 0 is None
  cur_file,                   \* ImportEssay.generate_files: path of the open section
  html_content,               \* ImportEssay.generate_files: html of the open section
  url,                        \* ImportEssay.generate_files: url of the open section
  jobs,                       \* the FileWriteJob objects, file_write_job is the last
  stack,                      \* the frames of write_all's recursion
  split_i,                    \* ImportGlossary.generate_files: subheads done
  PALI_ROOT_TO_GLOSSARY_ITEM  \* the module-level dict

sanVars   == <<title, fname>>
mainVars  == <<vinaya_essays, pc, idx, visited, folders, files, writes, stdout, exc,
               glossary_json, linked>>
essayVars == <<cur_elem, cur_file, html_content, url, jobs, stack>>
glossVars == <<split_i, PALI_ROOT_TO_GLOSSARY_ITEM>>
vars      == <<sanVars, mainVars, essayVars, glossVars>>

None == "None"

\* What a variable holds before its first assignment.
NoExc  == [type |-> None, msg |-> None, where |-> None, page |-> None]
NoPath == [folder |-> None, name |-> <<>>]
NoUrl  == [base |-> None, frag |-> None]

(***************************************************************************)
(* Bounds of the inputs.                                                   *)
(***************************************************************************)
MaxTitleLen == 3
MaxSibs     == 4
MaxPages    == 3
MaxEntries  == 3

(***************************************************************************)
(* String helpers: str.replace for a one-character pattern, re.sub of      *)
(* \s+, str.strip.                                                         *)
(***************************************************************************)
\* str.isspace / \s of a Unicode pattern, on the characters of the model.
IsSpace(c) == c \in {" ", "TAB", "LF", "NBSP"}

RECURSIVE Replace(_, _, _)
Replace(s, old, new) ==
  IF s = <<>> THEN <<>>
  ELSE (IF Head(s) = old THEN new ELSE <<Head(s)>>) \o Replace(Tail(s), old, new)

\* re.sub(r'\s+', ' ', s): every maximal run of whitespace becomes one space.
RECURSIVE ReSubSpaces(_)
ReSubSpaces(s) ==
  IF s = <<>> THEN <<>>
  ELSE IF IsSpace(Head(s))
       THEN IF Len(s) > 1 /\ IsSpace(s[2])
            THEN ReSubSpaces(Tail(s))
            ELSE <<" ">> \o ReSubSpaces(Tail(s))
       ELSE <<Head(s)>> \o ReSubSpaces(Tail(s))

RECURSIVE LStrip(_)
LStrip(s) == IF s # <<>> /\ IsSpace(Head(s)) THEN LStrip(Tail(s)) ELSE s

RECURSIVE RStrip(_)
RStrip(s) ==
  IF s # <<>> /\ IsSpace(s[Len(s)]) THEN RStrip(SubSeq(s, 1, Len(s) - 1)) ELSE s

Strip(s) == RStrip(LStrip(s))

\* The chain of replace calls of sanitize_file_name, before re.sub.
ReplaceChain(t) ==
  Replace(Replace(Replace(Replace(Replace(Replace(Replace(Replace(t,
    "NBSP", <<" ">>), "ENDASH", <<"-">>), "EMDASH", <<"-">>), ":", <<>>),
    ".", <<>>), ",", <<>>), "/", <<" ">>), "DQUOTE", <<"LDQUO">>)

\* Mutant: the result is not stripped.
sanitize_file_name_nostrip(t) == ReSubSpaces(ReplaceChain(t))

sanitize_file_name(t) == Strip(ReSubSpaces(ReplaceChain(t)))

(***************************************************************************)
(* The configuration table.  A relpath stands for itself; set_url maps it  *)
(* to the page's url, and a section's url adds the heading's id.           *)
(***************************************************************************)
SkipEssay == [class |-> "SkipEssay", subfolder |-> "", split_tag |-> None, linkto |-> FALSE]

ImportEssay(folder, split) ==
  [class |-> "ImportEssay", subfolder |-> folder, split_tag |-> split, linkto |-> FALSE]

ImportGlossary(folder, split, link) ==
  [class |-> "ImportGlossary", subfolder |-> folder, split_tag |-> split, linkto |-> link]

ESSAY_CONFIGS ==
  [p \in {"./matter/foreword.html", "./matter/preface.html", "./matter/bibliography.html",
          "./matter/abbreviations.html", "./matter/appendix-glossary.html",
          "./matter/appendix-plants.html"} |-> SkipEssay]
  @@ ("./matter/general-introduction.html" :> ImportEssay("General", "h2"))
  @@ ("./matter/bu-vb-1-introduction.html" :> ImportEssay("The Bhikkhu Vibhanga", "h2"))
  @@ ("./matter/bu-vb-2-introduction.html" :> ImportEssay("The Bhikkhu Vibhanga", "h2"))
  @@ ("./matter/bi-vb-introduction.html" :> ImportEssay("The Bhikkhuni Vibhanga", "h2"))
  @@ ("./matter/kd-1-introduction.html" :> ImportEssay("The Khandhakas", "h2"))
  @@ ("./matter/kd-2-introduction.html" :> ImportEssay("The Khandhakas", "h2"))
  @@ ("./matter/pvr-introduction.html" :> ImportEssay("The Parivara", "h2"))
  @@ ("./matter/appendix-terms.html" :> ImportGlossary("Glosses", "h3", TRUE))
  @@ ("./matter/appendix-sectional.html" :> ImportGlossary("Glosses", "h3", FALSE))
  @@ ("./matter/appendix-furniture.html" :> ImportGlossary("Furniture", "dt", FALSE))
  @@ ("./matter/appendix-medical.html" :> ImportGlossary("Medical Terms", "dt", FALSE))
  @@ ("./matter/bi-vb-appendix-rules.html" :> ImportEssay("Specific Bhikkhuni Rules", "h3"))

\* BaseEssayConfig.set_url: the page's url, kept as the relpath it is made from.
set_url(relpath) == [base |-> relpath, frag |-> None]

SectionUrl(u, id) == [base |-> u.base, frag |-> id]

TITLE_OVERRIDES ==
  ([base |-> "./matter/general-introduction.html", frag |-> "origin"]
     :> <<"O", "r", "i", "g", "i", "n", " ", "o", "f", " ", "t", "h", "e", " ", "V", "i", "n", "a", "y", "a">>)
  @@ ([base |-> "./matter/general-introduction.html", frag |-> "content"]
     :> <<"C", "o", "n", "t", "e", "n", "t", "s", " ", "o", "f", " ", "t", "h", "e", " ", "V", "i", "n", "a", "y", "a">>)
  @@ ([base |-> "./matter/pvr-introduction.html", frag |-> "pvr-1.12.16"]
     :> <<"P", "v", "r", " ", "1", "-", "2">>)

CONTENT_TAGS == {None, "p", "ul", "ol", "h3", "h4", "dl", "blockquote", "hr", "dd"}

(***************************************************************************)
(* Paths and the text of a written file.                                   *)
(***************************************************************************)
\* self.folder.joinpath(f"{fname}.md")
JoinPath(folder, fn) == [folder |-> folder, name |-> fn \o <<".", "m", "d">>]

\* Path.stem of a name ending in ".md" (a name of nothing but the suffix is
\* its own stem).
PathStem(p) == IF Len(p.name) > 3 THEN SubSeq(p.name, 1, Len(p.name) - 3) ELSE p.name

NoLink == <<>>

\* "[stem](./name)" with the spaces of the name percent-encoded.
Link(kind, p) ==
  [kind |-> kind, stem |-> PathStem(p), href |-> Replace(p.name, " ", <<"%", "2", "0">>)]

\* markdownify.markdownify and the removal of the doubled host.
markdownify(html) == [md_of |-> html]

\* sanitize_appendix_html: the element's html without its note references.
sanitize_appendix_html(page, i) == [pos |-> i, tag |-> page.elems[i].name]

(***************************************************************************)
(* The parsed page: the h1, the nav and their following siblings, each a   *)
(* node [name, id, text, role]; name None is a NavigableString.            *)
(***************************************************************************)
Node(n, i, t, r) == [name |-> n, id |-> i, text |-> t, role |-> r]

H1       == Node("h1", None, <<"T", ":", "1">>, None)
NavElem  == Node("nav", None, <<>>, None)
P        == Node("p", None, <<"x">>, None)
Txt      == Node(None, None, <<"LF">>, None)
Div      == Node("div", None, <<"y">>, None)
H2a      == Node("h2", "origin", <<"A", ":", "B">>, None)
H2b      == Node("h2", "b", <<"A", "B">>, None)
H2noid   == Node("h2", None, <<"C">>, None)
Endnotes == Node("section", None, <<>>, "doc-endnotes")

RECURSIVE find_all(_, _, _)
find_all(elems, name, from) ==
  IF from > Len(elems) THEN <<>>
  ELSE (IF elems[from].name = name THEN <<from>> ELSE <<>>) \o find_all(elems, name, from + 1)

next_sibling(elems, i) == IF i < Len(elems) THEN i + 1 ELSE 0

Page       == vinaya_essays[idx + 1]
PagePath   == Page.path
PageConfig == ESSAY_CONFIGS[PagePath]

(***************************************************************************)
(* Exceptions.                                                             *)
(***************************************************************************)
Raise(type, msg, where, page) == [type |-> type, msg |-> msg, where |-> where, page |-> page]

(***************************************************************************)
(* main                                                                    *)
(***************************************************************************)
MainStart ==
  /\ pc = "start"
  /\ stdout' = Append(stdout, <<"Generating Files">>)
  /\ pc' = "loop"
  /\ UNCHANGED <<vinaya_essays, idx, visited, folders, files, writes, exc, glossary_json,
                 linked, sanVars, essayVars, glossVars>>

\* Mutant: the loop passes over a path without a config.
MainNoConfigSkips ==
  /\ pc = "loop"
  /\ idx < Len(vinaya_essays)
  /\ PagePath \notin DOMAIN ESSAY_CONFIGS
  /\ visited' = Append(visited, PagePath)
  /\ idx' = idx + 1
  /\ UNCHANGED <<vinaya_essays, pc, folders, files, writes, stdout, exc, glossary_json,
                 linked, sanVars, essayVars, glossVars>>

\* for path, vinaya_essay in vinaya_essays.items(): path not in ESSAY_CONFIGS
MainNoConfig ==
  /\ pc = "loop"
  /\ idx < Len(vinaya_essays)
  /\ PagePath \notin DOMAIN ESSAY_CONFIGS
  /\ visited' = Append(visited, PagePath)
  /\ exc' = Raise("Exception", "No config", "main", PagePath)
  /\ pc' = "raised"
  /\ UNCHANGED <<vinaya_essays, idx, folders, files, writes, stdout, glossary_json, linked,
                 sanVars, essayVars, glossVars>>

\* isinstance(ESSAY_CONFIGS[path], SkipEssay): continue
MainSkip ==
  /\ pc = "loop"
  /\ idx < Len(vinaya_essays)
  /\ PagePath \in DOMAIN ESSAY_CONFIGS
  /\ PageConfig.class = "SkipEssay"
  /\ visited' = Append(visited, PagePath)
  /\ idx' = idx + 1
  /\ UNCHANGED <<vinaya_essays, pc, folders, files, writes, stdout, exc, glossary_json,
                 linked, sanVars, essayVars, glossVars>>

\* set_output_folder, mkdir, and the call of generate_files
MainEnter ==
  /\ pc = "loop"
  /\ idx < Len(vinaya_essays)
  /\ PagePath \in DOMAIN ESSAY_CONFIGS
  /\ PageConfig.class # "SkipEssay"
  /\ visited' = Append(visited, PagePath)
  /\ folders' = folders \cup {PageConfig.subfolder}
  /\ pc' = IF PageConfig.class = "ImportEssay" THEN "essay_start" ELSE "gloss_start"
  /\ UNCHANGED <<vinaya_essays, idx, files, writes, stdout, exc, glossary_json, linked,
                 sanVars, essayVars, glossVars>>

\* Mutant: the handler swallows the exception and the loop goes on.
MainExceptSwallows ==
  /\ pc = "except"
  /\ stdout' = Append(stdout, <<"ERROR Failed to generate", PagePath>>)
  /\ pc' = "loop"
  /\ idx' = idx + 1
  /\ exc' = NoExc
  /\ UNCHANGED <<vinaya_essays, visited, folders, files, writes, glossary_json, linked,
                 sanVars, essayVars, glossVars>>

\* except Exception as e: print(...); raise e
MainExcept ==
  /\ pc = "except"
  /\ stdout' = Append(stdout, <<"ERROR Failed to generate", PagePath>>)
  /\ pc' = "raised"
  /\ UNCHANGED <<vinaya_essays, idx, visited, folders, files, writes, exc, glossary_json,
                 linked, sanVars, essayVars, glossVars>>

\* after the loop: glossary.json, then the link rewriting
MainFinish ==
  /\ pc = "loop"
  /\ idx = Len(vinaya_essays)
  /\ glossary_json' = PALI_ROOT_TO_GLOSSARY_ITEM
  /\ linked' = TRUE
  /\ stdout' = stdout \o <<<<"  Done!">>, <<"  Wrote glossary.json">>, <<"  Linked">>>>
  /\ pc' = "done"
  /\ UNCHANGED <<vinaya_essays, idx, visited, folders, files, writes, exc, sanVars,
                 essayVars, glossVars>>

(***************************************************************************)
(* The specification of sanitize_file_name alone: every title of at most   *)
(* MaxTitleLen characters, then the call.                                  *)
(***************************************************************************)
TitleChars ==
  {"a", "b", "-", "LDQUO", " ", "TAB", "NBSP", "ENDASH", "EMDASH", ":", ".", ",", "/",
   "DQUOTE"}

\* The sequences of at most n elements of S.
StringsUpTo(S, n) == UNION {[1..k -> S] : k \in 0..n}

Unset == "unset"

Idle ==
  /\ vinaya_essays = <<>>
  /\ pc = "idle"
  /\ idx = 0
  /\ visited = <<>>
  /\ folders = {}
  /\ files = <<>>
  /\ writes = <<>>
  /\ stdout = <<>>
  /\ exc = NoExc
  /\ glossary_json = "absent"
  /\ linked = FALSE
  /\ cur_elem = 0
  /\ cur_file = NoPath
  /\ html_content = <<>>
  /\ url = NoUrl
  /\ jobs = <<>>
  /\ stack = <<>>
  /\ split_i = 0
  /\ PALI_ROOT_TO_GLOSSARY_ITEM = <<>>

InitSan ==
  /\ title \in StringsUpTo(TitleChars, MaxTitleLen)
  /\ fname = Unset
  /\ Idle

Sanitize ==
  /\ fname = Unset
  /\ pc = "idle"
  /\ fname' = sanitize_file_name(title)
  /\ UNCHANGED <<title, mainVars, essayVars, glossVars>>

NextSan == Sanitize

SpecSan == InitSan /\ [][NextSan]_vars

(***************************************************************************)
(* ImportEssay.FileWriteJob                                                *)
(***************************************************************************)
\* Mutant: the constructor does not set previous.next.
FileWriteJobInitNoNext(js, path, html, u) ==
  Append(js, [path |-> path, url |-> u, markdown |-> markdownify(html),
              previous |-> Len(js), next |-> 0])

\* FileWriteJob(path, html, url, previous) with previous the last job made, or
\* None (0) when there is none: the list of jobs with the new one.
FileWriteJobInit(js, path, html, u) ==
  Append(IF Len(js) > 0 THEN [js EXCEPT ![Len(js)].next = Len(js) + 1] ELSE js,
         [path |-> path, url |-> u, markdown |-> markdownify(html),
          previous |-> Len(js), next |-> 0])

\* FileWriteJob.write: the text written to self.path.
JobText(js, j) ==
  [source        |-> js[j].url,
   previous_link |-> IF js[j].previous # 0
                     THEN Link("Previous", js[js[j].previous].path) ELSE NoLink,
   markdown      |-> js[j].markdown,
   next_link     |-> IF js[j].next # 0
                     THEN Link("Next section", js[js[j].next].path) ELSE NoLink]

WriteText(path, text, j) ==
  /\ files' = (path :> text) @@ files
  /\ writes' = Append(writes, [page |-> PagePath, path |-> path, text |-> text, job |-> j])

(***************************************************************************)
(* ImportEssay.generate_files                                              *)
(***************************************************************************)
Throw(type, msg) ==
  /\ exc' = Raise(type, msg, "generate_files", PagePath)
  /\ pc' = "except"

Folder == PageConfig.subfolder

\* from the parse to the first cur_file
EssayStart ==
  /\ pc = "essay_start"
  /\ LET elems == Page.html.elems
         h1s   == find_all(elems, "h1", 1)
         navs  == find_all(elems, "nav", 1)
     IN  IF Len(h1s) # 1
         THEN /\ Throw("AssertionError", "h1 tags")
              /\ UNCHANGED essayVars
         ELSE IF Len(navs) > 1
         THEN /\ Throw("Exception", "nav tags")
              /\ UNCHANGED essayVars
         ELSE /\ cur_elem' = IF Len(navs) = 1 THEN navs[1] ELSE next_sibling(elems, h1s[1])
              /\ cur_file' = JoinPath(Folder, sanitize_file_name(elems[h1s[1]].text))
              /\ url' = set_url(PagePath)
              /\ html_content' = <<>>
              /\ jobs' = <<>>
              /\ stack' = <<>>
              /\ pc' = "essay_walk"
              /\ exc' = exc
  /\ UNCHANGED <<vinaya_essays, idx, visited, folders, files, writes, stdout, glossary_json,
                 linked, sanVars, glossVars>>

\* The title of the section a split heading opens.
SectionTitle(u, text) == IF u \in DOMAIN TITLE_OVERRIDES THEN TITLE_OVERRIDES[u] ELSE text

\* Mutant: a section's file is written as soon as the section is closed.
EssayWalkWritesAtSplit ==
  /\ pc = "essay_walk"
  /\ LET elems == Page.html.elems
         e     == next_sibling(elems, cur_elem)
         n     == elems[e]
     IN  IF cur_elem = 0
         THEN /\ Throw("AttributeError", "next_sibling of None")
              /\ UNCHANGED <<essayVars, files, writes>>
         ELSE IF e = 0
         THEN /\ pc' = "essay_walked"
              /\ UNCHANGED <<essayVars, exc, files, writes>>
         ELSE IF n.name = PageConfig.split_tag
         THEN /\ cur_elem' = e
              /\ jobs' = FileWriteJobInit(jobs, cur_file, html_content, url)
              /\ WriteText(cur_file, JobText(jobs', Len(jobs')), Len(jobs'))
              /\ html_content' = <<>>
              /\ IF n.id = None
                 THEN /\ Throw("AssertionError", "split tag without an id")
                      /\ UNCHANGED <<url, cur_file>>
                 ELSE /\ url' = SectionUrl(set_url(PagePath), n.id)
                      /\ cur_file' = JoinPath(Folder, sanitize_file_name(SectionTitle(url', n.text)))
                      /\ UNCHANGED <<pc, exc>>
              /\ UNCHANGED stack
         ELSE IF n.name \in CONTENT_TAGS
         THEN /\ cur_elem' = e
              /\ html_content' = Append(html_content, sanitize_appendix_html(Page.html, e))
              /\ UNCHANGED <<cur_file, url, jobs, stack, pc, exc, files, writes>>
         ELSE IF n.name = "section" /\ n.role = None
         THEN /\ Throw("KeyError", "role")
              /\ cur_elem' = e
              /\ UNCHANGED <<cur_file, html_content, url, jobs, stack, files, writes>>
         ELSE IF n.name = "section" /\ n.role = "doc-endnotes"
         THEN /\ pc' = "essay_walked"
              /\ cur_elem' = e
              /\ UNCHANGED <<cur_file, html_content, url, jobs, stack, exc, files, writes>>
         ELSE /\ Throw("Exception", "Unexpected tag")
              /\ cur_elem' = e
              /\ UNCHANGED <<cur_file, html_content, url, jobs, stack, files, writes>>
  /\ UNCHANGED <<vinaya_essays, idx, visited, folders, stdout, glossary_json, linked,
                 sanVars, glossVars>>

\* one turn of "while cur_elem.next_sibling", or the loop's end
EssayWalk ==
  /\ pc = "essay_walk"
  /\ LET elems == Page.html.elems
         e     == next_sibling(elems, cur_elem)
         n     == elems[e]
     IN  IF cur_elem = 0
         THEN /\ Throw("AttributeError", "next_sibling of None")
              /\ UNCHANGED essayVars
         ELSE IF e = 0
         THEN /\ pc' = "essay_walked"
              /\ UNCHANGED <<essayVars, exc>>
         ELSE IF n.name = PageConfig.split_tag
         THEN /\ cur_elem' = e
              /\ jobs' = FileWriteJobInit(jobs, cur_file, html_content, url)
              /\ html_content' = <<>>
              /\ IF n.id = None
                 THEN /\ Throw("AssertionError", "split tag without an id")
                      /\ UNCHANGED <<url, cur_file>>
                 ELSE /\ url' = SectionUrl(set_url(PagePath), n.id)
                      /\ cur_file' = JoinPath(Folder, sanitize_file_name(SectionTitle(url', n.text)))
                      /\ UNCHANGED <<pc, exc>>
              /\ UNCHANGED stack
         ELSE IF n.name \in CONTENT_TAGS
         THEN /\ cur_elem' = e
              /\ html_content' = Append(html_content, sanitize_appendix_html(Page.html, e))
              /\ UNCHANGED <<cur_file, url, jobs, stack, pc, exc>>
         ELSE IF n.name = "section" /\ n.role = None
         THEN /\ Throw("KeyError", "role")
              /\ cur_elem' = e
              /\ UNCHANGED <<cur_file, html_content, url, jobs, stack>>
         ELSE IF n.name = "section" /\ n.role = "doc-endnotes"
         THEN /\ pc' = "essay_walked"
              /\ cur_elem' = e
              /\ UNCHANGED <<cur_file, html_content, url, jobs, stack, exc>>
         ELSE /\ Throw("Exception", "Unexpected tag")
              /\ cur_elem' = e
              /\ UNCHANGED <<cur_file, html_content, url, jobs, stack>>
  /\ UNCHANGED <<vinaya_essays, idx, visited, folders, files, writes, stdout, glossary_json,
                 linked, sanVars, glossVars>>

\* file_write_job.write_all()
EssayWriteAllCall ==
  /\ pc = "essay_walked"
  /\ IF jobs = <<>>
     THEN /\ Throw("AttributeError", "write_all of None")
          /\ UNCHANGED stack
     ELSE /\ stack' = <<[job |-> Len(jobs), phase |-> "enter"]>>
          /\ pc' = "write_all"
          /\ exc' = exc
  /\ UNCHANGED <<vinaya_essays, idx, visited, folders, files, writes, stdout, glossary_json,
                 linked, sanVars, glossVars, cur_elem, cur_file, html_content, url, jobs>>

Top == stack[Len(stack)]

\* write_all: if self.previous: self.previous.write_all()
WriteAllDescend ==
  /\ pc = "write_all"
  /\ Top.phase = "enter"
  /\ jobs[Top.job].previous # 0
  /\ stack' = Append([stack EXCEPT ![Len(stack)].phase = "write"],
                     [job |-> jobs[Top.job].previous, phase |-> "enter"])
  /\ UNCHANGED <<mainVars, sanVars, glossVars, cur_elem, cur_file, html_content, url, jobs>>

\* write_all: self.write(), and the return to the caller
WriteAllWrite ==
  /\ pc = "write_all"
  /\ Top.phase = "write" \/ jobs[Top.job].previous = 0
  /\ WriteText(jobs[Top.job].path, JobText(jobs, Top.job), Top.job)
  /\ stack' = SubSeq(stack, 1, Len(stack) - 1)
  /\ IF Len(stack) = 1
     THEN pc' = "loop" /\ idx' = idx + 1
     ELSE UNCHANGED <<pc, idx>>
  /\ UNCHANGED <<vinaya_essays, visited, folders, stdout, exc, glossary_json, linked,
                 sanVars, glossVars, cur_elem, cur_file, html_content, url, jobs>>

(***************************************************************************)
(* The specification of ImportEssay.generate_files: main over one fetched  *)
(* essay page, every page of a head and at most MaxSibs following siblings.*)
(***************************************************************************)
SiblingKinds == {P, Txt, Div, H2a, H2b, H2noid, Endnotes}

GoodHeads == {<<H1, NavElem>>, <<H1>>}
BadHeads  == {<<>>, <<H1, H1>>, <<H1, NavElem, NavElem>>}

EssayPages(n) ==
  {[elems |-> h \o s] : h \in GoodHeads, s \in StringsUpTo(SiblingKinds, n)}
  \cup {[elems |-> h \o s] : h \in BadHeads, s \in StringsUpTo(SiblingKinds, 1)}

EssayPaths == {"./matter/general-introduction.html", "./matter/bu-vb-1-introduction.html"}

Started ==
  /\ pc = "start"
  /\ idx = 0
  /\ visited = <<>>
  /\ folders = {}
  /\ files = <<>>
  /\ writes = <<>>
  /\ stdout = <<>>
  /\ exc = NoExc
  /\ glossary_json = "absent"
  /\ linked = FALSE
  /\ cur_elem = 0
  /\ cur_file = NoPath
  /\ html_content = <<>>
  /\ url = NoUrl
  /\ jobs = <<>>
  /\ stack = <<>>
  /\ split_i = 0
  /\ PALI_ROOT_TO_GLOSSARY_ITEM = <<>>
  /\ title = <<>>
  /\ fname = Unset

InitEssay ==
  /\ vinaya_essays \in {<<[path |-> p, html |-> h]>> : p \in EssayPaths, h \in EssayPages(MaxSibs)}
  /\ Started

NextEssay ==
  \/ MainStart
  \/ MainEnter
  \/ MainExcept
  \/ MainFinish
  \/ EssayStart
  \/ EssayWalk
  \/ EssayWriteAllCall
  \/ WriteAllDescend
  \/ WriteAllWrite

SpecEssay == InitEssay /\ [][NextEssay]_vars

(***************************************************************************)
(* ImportGlossary.generate_files.  The article of a glossary page is a     *)
(* list of entries: a subhead of the split tag with its id (None: no id    *)
(* attribute), the texts of its <i lang='pli'> elements, the text after    *)
(* the last of them, and the siblings that follow the subhead up to the    *)
(* next subhead.                                                           *)
(***************************************************************************)
MIN_CONTENT_LENGTH == 100

OTHER_WORD_FORMS ==
  (<<"v", "i", "b", "b", "h", "a", "m">> :> <<<<"v", "i", "b", "b", "h", "a", "n", "t">>>>)
  @@ (<<"d", "uu", "s">> :>
        << <<"d", "uu", "s", "e", "n", "t">>,
           <<"d", "uu", "s", "e", "s", "s">>,
           <<"d", "uu", "s", "e", "s", "s", "a", "n", "t">> >>)

\* \w of a Unicode pattern, on the characters of the model.
IsWordChar(c) ==
  c \notin {" ", "TAB", "LF", "NBSP", ":", ".", ",", "/", "-", "ENDASH", "EMDASH",
            "DQUOTE", "LDQUO", "RDQUO"}

RECURSIVE DropNonWord(_)
DropNonWord(s) ==
  IF s # <<>> /\ ~IsWordChar(Head(s)) THEN DropNonWord(Tail(s)) ELSE s

\* re.split(r'\W+', s), the piece in hand being cur.
RECURSIVE ReSplitFrom(_, _)
ReSplitFrom(s, cur) ==
  IF s = <<>> THEN <<cur>>
  ELSE IF IsWordChar(Head(s)) THEN ReSplitFrom(Tail(s), Append(cur, Head(s)))
  ELSE <<cur>> \o ReSplitFrom(DropNonWord(s), <<>>)

ReSplit(s) == ReSplitFrom(s, <<>>)

EndsWith(w, suffix) ==
  Len(w) >= Len(suffix) /\ SubSeq(w, Len(w) - Len(suffix) + 1, Len(w)) = suffix

\* vnmutils.paliutils.pali_stem, a function of another package: a stemmer,
\* taken here to strip a verb ending or a final vowel.
pali_stem(w) ==
  IF EndsWith(w, <<"a", "t", "i">>) \/ EndsWith(w, <<"e", "t", "i">>)
  THEN SubSeq(w, 1, Len(w) - 3)
  ELSE IF w # <<>> /\ w[Len(w)] \in {"a", "i", "o", "u", "e"}
  THEN SubSeq(w, 1, Len(w) - 1)
  ELSE w

\* " ".join(pali_term)
RECURSIVE JoinSpace(_)
JoinSpace(ts) ==
  IF ts = <<>> THEN <<>>
  ELSE IF Len(ts) = 1 THEN ts[1]
  ELSE ts[1] \o <<" ">> \o JoinSpace(Tail(ts))

\* s.split(":")[0]
RECURSIVE BeforeColon(_)
BeforeColon(s) ==
  IF s = <<>> \/ Head(s) = ":" THEN <<>> ELSE <<Head(s)>> \o BeforeColon(Tail(s))

Contains(s, c) == \E i \in 1..Len(s) : s[i] = c

\* pali_term after the test for a quoted gloss inside it
EntryTerm(e) ==
  LET joined == JoinSpace(e.terms)
  IN  IF Contains(joined, "LDQUO") THEN Strip(BeforeColon(joined)) ELSE joined

EntryGloss(e) ==
  IF Contains(JoinSpace(e.terms), "LDQUO") THEN <<"LDQUO">> \o e.gloss ELSE e.gloss

\* fname without its ".md"
EntryFileName(e) ==
  IF Contains(EntryGloss(e), "LDQUO")
  THEN sanitize_file_name(EntryTerm(e) \o <<" ", "m", "e", "a", "n", "s", " ">> \o EntryGloss(e))
  ELSE sanitize_file_name(EntryTerm(e))

\* The siblings the content loop takes: up to the first section, if any.
RECURSIVE Walked(_)
Walked(body) ==
  IF body = <<>> \/ Head(body).name = "section" THEN <<>>
  ELSE <<Head(body)>> \o Walked(Tail(body))

RECURSIVE ContentLen(_)
ContentLen(nodes) == IF nodes = <<>> THEN 0 ELSE Head(nodes).len + ContentLen(Tail(nodes))

\* Mutant: a root that is already a key keeps its first glossary item.
SetItemFirstWins(map, key, value) ==
  IF key \in DOMAIN map THEN map ELSE (key :> value) @@ map

\* PALI_ROOT_TO_GLOSSARY_ITEM[key] = value
SetItem(map, key, value) == (key :> value) @@ map

RECURSIVE SetItems(_, _, _)
SetItems(map, keys, value) ==
  IF keys = <<>> THEN map ELSE SetItems(SetItem(map, Head(keys), value), Tail(keys), value)

\* Mutant: the other word forms of a stem are not added.
AddStemOnly(map, s, value) == SetItem(map, s, value)

\* the body of "for w in ...": the stem, then its other word forms
AddStem(map, s, value) ==
  IF s \in DOMAIN OTHER_WORD_FORMS
  THEN SetItems(SetItem(map, s, value), OTHER_WORD_FORMS[s], value)
  ELSE SetItem(map, s, value)

\* for w in re.split(r'\W+', pali_term): ...
RECURSIVE AddWords(_, _, _)
AddWords(map, words, value) ==
  IF words = <<>> THEN map
  ELSE AddWords(AddStem(map, pali_stem(Head(words)), value), Tail(words), value)

\* str(cur_file)
PathStr(path) == <<path.folder, path.name>>

GlossStart ==
  /\ pc = "gloss_start"
  /\ split_i' = 0
  /\ pc' = "gloss"
  /\ UNCHANGED <<vinaya_essays, idx, visited, folders, files, writes, stdout, exc,
                 glossary_json, linked, sanVars, essayVars, PALI_ROOT_TO_GLOSSARY_ITEM>>

\* one turn of "for subhead in splits"
GlossEntry ==
  /\ pc = "gloss"
  /\ split_i < Len(Page.html.article)
  /\ LET e        == Page.html.article[split_i + 1]
         walked   == Walked(e.body)
         cur_path == JoinPath(Folder, EntryFileName(e))
     IN  IF e.id = None
         THEN /\ Throw("KeyError", "id")
              /\ UNCHANGED <<split_i, PALI_ROOT_TO_GLOSSARY_ITEM, files, writes>>
         ELSE IF e.id = ""
         THEN /\ Throw("AssertionError", "subhead without an id")
              /\ UNCHANGED <<split_i, PALI_ROOT_TO_GLOSSARY_ITEM, files, writes>>
         ELSE IF e.terms = <<>>
         THEN /\ Throw("AssertionError", "subhead without a term")
              /\ UNCHANGED <<split_i, PALI_ROOT_TO_GLOSSARY_ITEM, files, writes>>
         ELSE IF \E i \in 1..Len(walked) : walked[i].name \notin CONTENT_TAGS
         THEN /\ Throw("AssertionError", "Unexpected tag")
              /\ UNCHANGED <<split_i, PALI_ROOT_TO_GLOSSARY_ITEM, files, writes>>
         ELSE IF ContentLen(walked) < MIN_CONTENT_LENGTH
         THEN /\ split_i' = split_i + 1
              /\ UNCHANGED <<pc, exc, PALI_ROOT_TO_GLOSSARY_ITEM, files, writes>>
         ELSE /\ PALI_ROOT_TO_GLOSSARY_ITEM' =
                   IF PageConfig.linkto
                   THEN AddWords(PALI_ROOT_TO_GLOSSARY_ITEM, ReSplit(EntryTerm(e)),
                                 PathStr(cur_path))
                   ELSE PALI_ROOT_TO_GLOSSARY_ITEM
              /\ WriteText(cur_path,
                           [source  |-> SectionUrl(set_url(PagePath), e.id),
                            content |-> markdownify(walked)], 0)
              /\ split_i' = split_i + 1
              /\ UNCHANGED <<pc, exc>>
  /\ UNCHANGED <<vinaya_essays, idx, visited, folders, stdout, glossary_json, linked,
                 sanVars, essayVars>>

\* the loop is over: generate_files returns
GlossReturn ==
  /\ pc = "gloss"
  /\ split_i = Len(Page.html.article)
  /\ pc' = "loop"
  /\ idx' = idx + 1
  /\ UNCHANGED <<vinaya_essays, visited, folders, files, writes, stdout, exc, glossary_json,
                 linked, sanVars, essayVars, glossVars>>

(***************************************************************************)
(* The specification of ImportGlossary.generate_files: main over the       *)
(* glossary of terms (linkto=True) and the sectional glossary              *)
(* (linkto=False), in either order, of at most MaxEntries entries in all.  *)
(***************************************************************************)
GNode(n, l) == [name |-> n, len |-> l]

LongBody  == <<GNode(None, 1), GNode("p", 60), GNode("p", 60)>>
CutBody   == <<GNode("p", 99), GNode("section", 500)>>
BadBody   == <<GNode("p", 120), GNode("div", 10)>>

Entry(id, terms, gloss, body) == [id |-> id, terms |-> terms, gloss |-> gloss, body |-> body]

Dusa       == <<"d", "uu", "s", "a">>
Duseti     == <<"d", "uu", "s", "e", "t", "i">>
Dusenta    == <<"d", "uu", "s", "e", "n", "t", "a">>
Vibbhamati == <<"v", "i", "b", "b", "h", "a", "m", "a", "t", "i">>
Vibbhama   == <<"v", "i", "b", "b", "h", "a", "m", "a", ".">>
Quoted     == <<"v", "i", "b", "b", "h", "a", "n", "t", "a", ":", " ", "LDQUO", "g", "RDQUO">>
GlossText  == <<":", " ", "LDQUO", "c", "RDQUO">>

EntryKinds ==
  {Entry("e1", <<Duseti>>, GlossText, LongBody),
   Entry("e2", <<Dusenta>>, <<>>, LongBody),
   Entry("e3", <<Dusa, Vibbhama>>, <<>>, LongBody),
   Entry("e4", <<Quoted>>, <<>>, LongBody),
   Entry("e6", <<Vibbhamati>>, <<>>, CutBody),
   Entry(None, <<Dusa>>, <<>>, LongBody),
   Entry("e8", <<Duseti>>, <<>>, BadBody)}

TermsPath     == "./matter/appendix-terms.html"
SectionalPath == "./matter/appendix-sectional.html"

GlossPage(p, es) == [path |-> p, html |-> [article |-> es]]

\* The run over the linked glossary alone, or over both glossaries in either order.
GlossRuns(es, k) ==
  {<<GlossPage(TermsPath, es)>>,
   <<GlossPage(TermsPath, SubSeq(es, 1, k)), GlossPage(SectionalPath, SubSeq(es, k + 1, Len(es)))>>,
   <<GlossPage(SectionalPath, SubSeq(es, 1, k)), GlossPage(TermsPath, SubSeq(es, k + 1, Len(es)))>>}

InitGloss ==
  /\ \E es \in StringsUpTo(EntryKinds, MaxEntries) :
       \E k \in 0..Len(es) : vinaya_essays \in GlossRuns(es, k)
  /\ Started

NextGloss ==
  \/ MainStart
  \/ MainEnter
  \/ MainExcept
  \/ MainFinish
  \/ GlossStart
  \/ GlossEntry
  \/ GlossReturn

SpecGloss == InitGloss /\ [][NextGloss]_vars

(***************************************************************************)
(* The specification of main: at most MaxPages fetched pages of distinct   *)
(* paths: a skipped page, a path without a config, two essays of one       *)
(* folder and the two glossaries of the folder Glosses.                    *)
(***************************************************************************)
NoHtml == [elems |-> <<>>]

EssaySamples ==
  {[elems |-> <<H1, NavElem, P, H2a, P, H2b>>],
   [elems |-> <<H1, NavElem, P, H2b, Div>>]}

GlossSamples ==
  {[article |-> <<Entry("e1", <<Duseti>>, GlossText, LongBody),
                  Entry("e3", <<Dusa, Vibbhamati>>, <<>>, LongBody)>>],
   [article |-> <<Entry("e1", <<Duseti>>, GlossText, LongBody),
                  Entry(None, <<Dusa>>, <<>>, LongBody)>>]}

FetchedPages ==
  {[path |-> "./matter/foreword.html", html |-> NoHtml],
   [path |-> "./matter/colophon.html", html |-> NoHtml]}
  \cup {[path |-> p, html |-> h] :
          p \in {"./matter/bu-vb-1-introduction.html", "./matter/bu-vb-2-introduction.html"},
          h \in EssaySamples}
  \cup {[path |-> p, html |-> h] : p \in {TermsPath, SectionalPath}, h \in GlossSamples}

\* The keys of a dict are distinct.
DistinctPaths(ps) == \A i, j \in 1..Len(ps) : i # j => ps[i].path # ps[j].path

Init ==
  /\ vinaya_essays \in {ps \in StringsUpTo(FetchedPages, MaxPages) : DistinctPaths(ps)}
  /\ Started

Next ==
  \/ MainStart
  \/ MainNoConfig
  \/ MainSkip
  \/ MainEnter
  \/ MainExcept
  \/ MainFinish
  \/ EssayStart
  \/ EssayWalk
  \/ EssayWriteAllCall
  \/ WriteAllDescend
  \/ WriteAllWrite
  \/ GlossStart
  \/ GlossEntry
  \/ GlossReturn

Spec == Init /\ [][Next]_vars

(***************************************************************************)
(* What the page itself says about its sections, for the claims about      *)
(* ImportEssay.generate_files.                                             *)
(***************************************************************************)
IsEssay(g) == g.path \in DOMAIN ESSAY_CONFIGS /\ ESSAY_CONFIGS[g.path].class = "ImportEssay"

H1s(g)  == find_all(g.html.elems, "h1", 1)
Navs(g) == find_all(g.html.elems, "nav", 1)

\* The opening boundary of the first section: the nav, or the h1 without one.
Opening(g) == IF Len(Navs(g)) = 1 THEN Navs(g)[1] ELSE H1s(g)[1]

\* The element the walk starts from; the siblings after it are walked.
WalkFrom(g) == IF Len(Navs(g)) = 1 THEN Navs(g)[1] ELSE H1s(g)[1] + 1

IsEndnotes(n) == n.name = "section" /\ n.role = "doc-endnotes"

\* The first doc-endnotes section after position from, or the end of the page.
EndAfter(g, from) ==
  LET ends == {p \in (from + 1)..Len(g.html.elems) : IsEndnotes(g.html.elems[p])}
  IN  IF ends = {} THEN Len(g.html.elems) + 1
      ELSE CHOOSE p \in ends : \A q \in ends : p <= q

RECURSIVE Ascending(_)
Ascending(S) ==
  IF S = {} THEN <<>>
  ELSE LET m == CHOOSE x \in S : \A y \in S : x <= y
       IN  <<m>> \o Ascending(S \ {m})

\* The split headings after position from and before the end notes, in order.
SplitsAfter(g, from) ==
  Ascending({p \in (from + 1)..(EndAfter(g, from) - 1) :
               g.html.elems[p].name = ESSAY_CONFIGS[g.path].split_tag})

\* The content-tag siblings strictly between two positions, in order.
ContentBetween(g, lo, hi) ==
  Ascending({p \in (lo + 1)..(hi - 1) : g.html.elems[p].name \in CONTENT_TAGS})

\* The path of the file of a section: the first is named from the h1, every
\* other from its heading (or the override of its url).
SectionPath(g, heading) ==
  LET e == g.html.elems[heading]
  IN  JoinPath(ESSAY_CONFIGS[g.path].subfolder,
               sanitize_file_name(
                 IF e.name = "h1" THEN e.text
                 ELSE SectionTitle(SectionUrl(set_url(g.path), e.id), e.text)))

WritesOf(g) == SelectSeq(writes, LAMBDA w : w.page = g.path)

\* The pages the for loop is done with: generate_files returned for each.
DonePages == {vinaya_essays[k] : k \in 1..idx}

\* C1: a successful generate_files of a page with one h1 and n split
\* headings among the walked siblings writes n + 1 files: the first named from
\* the h1, and one for every heading, the last included.
C1_OneFilePerSection ==
  \A g \in DonePages :
    IsEssay(g) /\ Len(H1s(g)) = 1 =>
      LET hs == SplitsAfter(g, WalkFrom(g))
          W  == WritesOf(g)
      IN  /\ Len(W) = Len(hs) + 1
          /\ W[1].path = SectionPath(g, H1s(g)[1])
          /\ \A j \in 1..Len(hs) : W[j + 1].path = SectionPath(g, hs[j])

\* C6: the body of every file written by ImportEssay.generate_files is built
\* from exactly the content-tag siblings between the section's opening boundary
\* (the nav, or the h1 without a nav; the section's heading for a later file)
\* and the next split heading, in document order.
C6_BodyIsSection ==
  \A g \in DonePages :
    IsEssay(g) =>
      LET hs     == SplitsAfter(g, Opening(g))
          bounds == <<Opening(g)>> \o hs \o <<EndAfter(g, Opening(g))>>
          W      == WritesOf(g)
      IN  \A k \in 1..Len(W) :
            /\ k + 1 <= Len(bounds)
            /\ W[k].text.markdown =
                 markdownify([i \in 1..Len(ContentBetween(g, bounds[k], bounds[k + 1])) |->
                    sanitize_appendix_html(g.html, ContentBetween(g, bounds[k], bounds[k + 1])[i])])

\* The statement above restricted to the pages that have a nav, which holds.
C6_WithNav ==
  \A g \in DonePages :
    IsEssay(g) /\ Len(Navs(g)) = 1 =>
      LET hs     == SplitsAfter(g, Opening(g))
          bounds == <<Opening(g)>> \o hs \o <<EndAfter(g, Opening(g))>>
          W      == WritesOf(g)
      IN  \A k \in 1..Len(W) :
            /\ k + 1 <= Len(bounds)
            /\ W[k].text.markdown =
                 markdownify([i \in 1..Len(ContentBetween(g, bounds[k], bounds[k + 1])) |->
                    sanitize_appendix_html(g.html, ContentBetween(g, bounds[k], bounds[k + 1])[i])])

\* C7: no two writes of a run go to the same path, so no file written in the
\* run is overwritten by a later write of the run.
C7_NoOverwrite ==
  \A i, j \in 1..Len(writes) : i # j => writes[i].path # writes[j].path

\* The page generate_files is in, or was in last.
CurPage == vinaya_essays[IF pc \in {"loop", "done"} THEN idx ELSE idx + 1]

\* C9: write_all on the last job writes every job of the page once and in
\* document order; every written file but the first carries a Previous link
\* naming the file of the section before it, every one but the last a Next
\* section link naming the file of the section after it, and the first has no
\* Previous link and the last no Next link.
C9_WriteAllInOrder ==
  (pc \in {"write_all", "loop", "done"} /\ visited # <<>> /\ idx + 1 > 0
     /\ (pc \in {"loop", "done"} => idx > 0) /\ IsEssay(CurPage)) =>
    LET g  == CurPage
        W  == WritesOf(g)
        hs == SplitsAfter(g, WalkFrom(g))
    IN  /\ Len(W) <= Len(jobs)
        /\ (pc \in {"loop", "done"} => Len(W) = Len(jobs))
        /\ \A k \in 1..Len(W) :
             /\ W[k].job = k
             /\ W[k].path = SectionPath(g, IF k = 1 THEN H1s(g)[1] ELSE hs[k - 1])
             /\ W[k].text.previous_link =
                  IF k = 1 THEN NoLink
                  ELSE [kind |-> "Previous", stem |-> PathStem(W[k - 1].path),
                        href |-> Replace(W[k - 1].path.name, " ", <<"%", "2", "0">>)]
             /\ W[k].text.next_link =
                  IF k = Len(jobs) THEN NoLink
                  ELSE [kind |-> "Next section", stem |-> PathStem(jobs[k + 1].path),
                        href |-> Replace(jobs[k + 1].path.name, " ", <<"%", "2", "0">>)]
             /\ (k < Len(W) => W[k + 1].path = jobs[k + 1].path)

\* write_all has returned after writing a chain of three jobs.
C9_Witness ==
  /\ pc \in {"loop", "done"}
  /\ idx > 0
  /\ IsEssay(CurPage)
  /\ Len(jobs) = 3
  /\ Len(WritesOf(CurPage)) = 3
  /\ writes[2].text.previous_link # NoLink
  /\ writes[2].text.next_link # NoLink

\* C10: when the walk of ImportEssay.generate_files fails, the exception is
\* raised before any file of that page has been written.
C10_AllOrNothing ==
  (pc \in {"except", "raised"} /\ exc # NoExc /\ exc.where = "generate_files"
     /\ IsEssay(vinaya_essays[idx + 1])) =>
    /\ WritesOf(vinaya_essays[idx + 1]) = <<>>
    /\ \A f \in DOMAIN files : \E w \in 1..Len(writes) :
         writes[w].path = f /\ writes[w].page # exc.page

\* A walk failed on an unexpected tag after it had made a write job.
C10_Witness ==
  /\ pc = "raised"
  /\ exc # NoExc
  /\ exc.where = "generate_files"
  /\ exc.msg = "Unexpected tag"
  /\ IsEssay(vinaya_essays[idx + 1])
  /\ Len(jobs) >= 2

(***************************************************************************)
(* What the fetched pages say about the glossary entries, for the claims   *)
(* about PALI_ROOT_TO_GLOSSARY_ITEM.                                       *)
(***************************************************************************)
IsGlossary(g) ==
  g.path \in DOMAIN ESSAY_CONFIGS /\ ESSAY_CONFIGS[g.path].class = "ImportGlossary"

\* The entries of page k the loop over the subheads is done with.
EntriesDone(k) ==
  LET g == vinaya_essays[k]
      n == IF ~IsGlossary(g) THEN 0
           ELSE IF k <= idx THEN Len(g.html.article)
           ELSE IF pc = "gloss" \/ (pc \in {"except", "raised"} /\ exc.where = "generate_files")
           THEN split_i
           ELSE 0
  IN  [i \in 1..n |-> [entry |-> g.html.article[i], page |-> g.path]]

RECURSIVE Processed(_)
Processed(k) == IF k = 0 THEN <<>> ELSE Processed(k - 1) \o EntriesDone(k)

IsKept(e) == ContentLen(Walked(e.body)) >= MIN_CONTENT_LENGTH

\* The kept entries of the glossaries with linkto=True, in processing order.
LinkKept ==
  SelectSeq(Processed(IF idx < Len(vinaya_essays) THEN idx + 1 ELSE idx),
            LAMBDA r : ESSAY_CONFIGS[r.page].linkto /\ IsKept(r.entry))

Range(f) == {f[i] : i \in DOMAIN f}

StemsOf(e) == {pali_stem(w) : w \in Range(ReSplit(EntryTerm(e)))}

KeysOf(e) ==
  StemsOf(e) \cup UNION {Range(OTHER_WORD_FORMS[st]) : st \in StemsOf(e) \cap DOMAIN OTHER_WORD_FORMS}

FileOf(r) == <<ESSAY_CONFIGS[r.page].subfolder, EntryFileName(r.entry) \o <<".", "m", "d">>>>

Last(S) == CHOOSE i \in S : \A j \in S : j <= i

ErrorLine(path) == <<"ERROR Failed to generate", path>>

RaisedByGenerate == pc = "raised" /\ exc.where = "generate_files"

\* C2: if generate_files raises for a page, main prints the error line for
\* that page and re-raises the same exception: no later page is processed,
\* glossary.json is not written, the links are not rewritten, and the files
\* written before are left as they are.
C2_PrintAndReraise ==
  /\ [](RaisedByGenerate =>
          /\ exc.page = vinaya_essays[idx + 1].path
          /\ stdout[Len(stdout)] = ErrorLine(exc.page)
          /\ Len(visited) = idx + 1
          /\ \A w \in 1..Len(writes) : writes[w].page \in Range(SubSeq(visited, 1, idx + 1))
          /\ glossary_json = "absent"
          /\ ~linked
          /\ \A w \in 1..Len(writes) : writes[w].path \in DOMAIN files)
  /\ [][pc = "except" =>
          /\ pc' = "raised"
          /\ exc' = exc
          /\ stdout' = Append(stdout, ErrorLine(exc.page))
          /\ <<files, writes, folders, idx, glossary_json, linked>>' =
               <<files, writes, folders, idx, glossary_json, linked>>]_vars
  /\ [][pc = "raised" => UNCHANGED vars]_vars

\* generate_files raised for the second page, after files were written.
C2_Witness ==
  /\ RaisedByGenerate
  /\ idx >= 1
  /\ writes # <<>>
  /\ \E w \in 1..Len(writes) : writes[w].page = exc.page

RaisedNoConfig == pc = "raised" /\ exc.where = "main"

FoldersOf(ps) ==
  {ESSAY_CONFIGS[q].subfolder :
     q \in {r \in Range(ps) \cap DOMAIN ESSAY_CONFIGS : ESSAY_CONFIGS[r].class # "SkipEssay"}}

\* C5: main processes the fetched pages in the order of the fetched mapping,
\* and at a path without an entry in ESSAY_CONFIGS it raises before creating a
\* folder or writing a file for that page; no later page is processed, and
\* glossary.json and the link rewriting do not run.
C5_NoConfigRaises ==
  /\ Len(visited) \in {idx, idx + 1}
  /\ \A k \in 1..Len(visited) : visited[k] = vinaya_essays[k].path
  /\ \A k \in 1..idx : vinaya_essays[k].path \in DOMAIN ESSAY_CONFIGS
  /\ (Len(visited) > idx /\ visited[idx + 1] \notin DOMAIN ESSAY_CONFIGS => RaisedNoConfig)
  /\ (RaisedNoConfig =>
        /\ exc.page = vinaya_essays[idx + 1].path
        /\ exc.page \notin DOMAIN ESSAY_CONFIGS
        /\ Len(visited) = idx + 1
        /\ folders = FoldersOf(SubSeq(visited, 1, idx))
        /\ \A w \in 1..Len(writes) : writes[w].page \in Range(SubSeq(visited, 1, idx))
        /\ glossary_json = "absent"
        /\ ~linked)

\* main raised at a path without a config, after an earlier page was written.
C5_Witness ==
  /\ RaisedNoConfig
  /\ idx >= 1
  /\ writes # <<>>

Forbidden == {":", ".", ",", "/", "DQUOTE", "NBSP", "ENDASH", "EMDASH"}

RECURSIVE IsSubseq(_, _)
IsSubseq(a, b) ==
  IF a = <<>> THEN TRUE
  ELSE IF b = <<>> THEN FALSE
  ELSE IF Head(a) = Head(b) THEN IsSubseq(Tail(a), Tail(b))
  ELSE IsSubseq(a, Tail(b))

IsOther(c) == c \notin Forbidden /\ ~IsSpace(c)

====
